---- MODULE Spec2Model ----
(***************************************************************************)
(* Installation orchestrator of the driver installer                       *)
(* (src/installer/core.py, windows.py, linux.py).                          *)
(*                                                                         *)
(* One call of install_driver is followed from its dispatch through the    *)
(* OS/type specific cascade.  Every subprocess.run is split into the       *)
(* launch (which may raise) and the exit of the process, so that the       *)
(* order of launches, their results and the moment the temporary           *)
(* directory of install_zip is removed are all visible in the state.       *)
(***************************************************************************)
EXTENDS Integers, Sequences, FiniteSets, TLC

(***************************************************************************)
(* Bounds                                                                  *)
(***************************************************************************)
\* ordinary process exit codes are 0..MaxExitCode, plus the two reboot codes
MaxExitCode == 1

\* device identifiers are built from at most MaxIdChunks fragments
MaxIdChunks == 3

\* version strings have at most MaxVersionParts dot-separated components
MaxVersionParts == 2

\* a manifest has at most MaxManifest entries
MaxManifest == 2

\* at most MaxInstalled drivers are installed
MaxInstalled == 2

\* download_file is called with max_retries of at most MaxRetries
MaxRetries == 2

\* at most MaxCalls calls of download_file are made for the destination
MaxCalls == 2

(***************************************************************************)
(* Inputs                                                                  *)
(***************************************************************************)
RebootRequired == 3010
RebootInitiated == 1641

ExitCodes == (0..MaxExitCode) \cup {RebootRequired, RebootInitiated}

\* entry.get('silentArgs') when the key is absent (Python None)
None == "<None>"

SilentArgsValues == {None, "", "/CUSTOM"}

\* entry.get('type', ''): the six manifest types, spelling variants, an
\* absent key ('') and a type no installer knows
TypeValues == {"exe", "msi", "zip", "deb", "rpm", "manual",
               "MSI", "Manual", "", "inf"}

OsTypeValues == {"Windows", "Linux", "Darwin", "windows"}

\* what file_path designates on disk
FileKinds == {"file", "dir"}

\* str.lower() on the type values above
Lower(s) ==
    CASE s = "MSI" -> "msi"
      [] s = "Manual" -> "manual"
      [] OTHER -> s

\* members a zip archive may contain, by path; rank is the position of the
\* path in sorted path order
ZipMembers == {
    [path |-> "a/install.exe", rank |-> 1, suffix |-> ".exe"],
    [path |-> "b/setup.msi", rank |-> 2, suffix |-> ".msi"],
    [path |-> "c/readme.txt", rank |-> 3, suffix |-> ".txt"],
    [path |-> "d/SETUP.EXE", rank |-> 4, suffix |-> ".EXE"] }

VARIABLES
    pc,         \* position of the call: idle, install_exe, ..., done
    entry,      \* manifest entry of the call
    osType,     \* os_type argument
    fileKind,   \* what file_path is on disk
    silentArgs, \* silent_args parameter of the running install_exe
    exeIdx,     \* index into silent_args_list; Len+1 is the flag-free launch
    tier,       \* tier of the deb / rpm cascade about to run
    proc,       \* "none" or "running": the external process of subprocess.run
    launches,   \* every launch made so far, in order, with its result
    outcome,    \* <<>> or <<(success, exit_code)>> returned by install_xxx
    result,     \* <<>> or <<bool>> returned by install_driver
    inZip,      \* the running installer was started by install_zip
    tempDir,    \* "none", "exists", "removed": mkdtemp directory of install_zip
    zipTree,    \* members found in the extracted tree
    installer,  \* <<>> or <<member>>: installers[0] of install_zip
    notes,      \* directories in which a .manual.txt note has been written
    norm,       \* normalize_device_id: the input and the outputs of repeated calls
    ver,        \* compare_versions: three version strings and the results
    recon,      \* reconciler: manifest, filter, installed drivers and the views
    dl          \* download_file: the destination file and the running call

\* state of the installation orchestrator, and state of the detector
installVars == <<pc, entry, osType, fileKind, silentArgs, exeIdx, tier, proc,
                 launches, outcome, result, inZip, tempDir, zipTree,
                 installer, notes>>

detectVars == <<norm, ver, recon>>

vars == <<installVars, detectVars, dl>>

\* no install_driver call has been made
InstallerIdle ==
    /\ pc = "idle"
    /\ entry = [name |-> "Unknown", type |-> "", silentArgs |-> None]
    /\ osType = "Windows"
    /\ fileKind = "file"
    /\ silentArgs = None
    /\ exeIdx = 1
    /\ tier = 1
    /\ proc = "none"
    /\ launches = << >>
    /\ outcome = << >>
    /\ result = << >>
    /\ inZip = FALSE
    /\ tempDir = "none"
    /\ zipTree = {}
    /\ installer = << >>
    /\ notes = {}

\* no function of the detector has been called
NormIdle == norm = [x |-> "", out |-> << >>]

VerIdle == ver = [a |-> "", b |-> "", c |-> "", out |-> << >>]

\* the record of one reconciliation that has not called a view yet
ReconStart(manifest, os_filter, system, at) ==
    [manifest |-> manifest, os_filter |-> os_filter, system |-> system,
     pc |-> at, probes |-> << >>, listed |-> << >>, available |-> << >>,
     matches |-> << >>, not_installed |-> << >>,
     different_versions |-> << >>, needing_update |-> << >>]

\* a JSON value that is a list of items, a non-empty string or a number
JsonValue(isa, items) == [isa |-> isa, items |-> items]

\* the manifest file: absent, not JSON, or JSON data that is a dictionary
\* with the given keys, a list or a number
ManifestFile(exists, parses, isa, keys, drivers, manufacturers, items) ==
    [exists |-> exists, parses |-> parses,
     data |-> [isa |-> isa, keys |-> keys, drivers |-> drivers,
               manufacturers |-> manufacturers, items |-> items]]

NoManifest ==
    ManifestFile(FALSE, FALSE, "int", {}, JsonValue("int", << >>), << >>,
                 << >>)

ReconIdle == recon = ReconStart(NoManifest, None, << >>, "idle")

\* the downloader before a call of download_file; file is what is at
\* output_path: "absent", "original" (there before the first call),
\* "partial" (left by an attempt that failed while writing) or "complete"
DownloadStart(file) ==
    [file |-> file, pc |-> "idle", calls |-> 0, force |-> FALSE,
     max_retries |-> 0, existed |-> FALSE, attempt |-> 0, attempts |-> << >>, waits |-> << >>,
     returned |-> << >>]

DownloadIdle == dl = DownloadStart("absent")

Init ==
    /\ InstallerIdle
    /\ DownloadIdle
    /\ NormIdle
    /\ VerIdle
    /\ ReconIdle

(***************************************************************************)
(* subprocess.run                                                          *)
(***************************************************************************)
\* code of a launch that has not exited
NoCode == 0 - 2

Launch(tool, args) ==
    [tool |-> tool, args |-> args, status |-> "running", code |-> NoCode]

\* the launch mechanism raised: the process never ran
Raised(tool, args) ==
    [tool |-> tool, args |-> args, status |-> "raised", code |-> NoCode]

\* the running process (the last launch) exits with code c
Exited(ls, c) ==
    [ls EXCEPT ![Len(ls)] = [@ EXCEPT !.status = "exited", !.code = c]]

\* return (s, c) from install_exe / install_msi / install_deb / install_rpm
Return(s, c) ==
    /\ outcome' = <<[success |-> s, exitCode |-> c]>>
    /\ IF inZip
         THEN pc' = "zip_finally" /\ result' = result
         ELSE pc' = "done" /\ result' = <<s>>

(***************************************************************************)
(* install_exe                                                             *)
(***************************************************************************)
\* variant: the custom flags are tried after the fixed ones
silent_args_list_CustomLast(silent_args) ==
    <<"/S", "/silent", "/quiet", "/verysilent", "/s", "/s /v\"/qn\"",
      "/S /v\"/qn\"", silent_args>>

silent_args_list(silent_args) ==
    <<silent_args, "/S", "/silent", "/quiet", "/verysilent", "/s",
      "/s /v\"/qn\"", "/S /v\"/qn\"">>

\* for args in silent_args_list: if args is None: continue
RECURSIVE NextCandidate(_, _)
NextCandidate(list, i) ==
    IF i > Len(list) THEN i
    ELSE IF list[i] = None THEN NextCandidate(list, i + 1)
    ELSE i

\* result.returncode == 0 or == 3010 or == 1641
ExeAccepted(c) == c = 0 \/ c = RebootRequired \/ c = RebootInitiated

\* variant: the last resort reports success on an accepted exit code
ExeFinalSuccess_Accepts(c) == ExeAccepted(c)

\* success flag of the flag-free last resort: return False, result.returncode
ExeFinalSuccess(c) == FALSE

\* except clause of the flag-free last resort: return False, -1
InstallExeFinalExcept == Return(FALSE, 0 - 1)

\* variant: a launch that raises ends the cascade with (False, -1)
InstallExeLaunch_RaiseEnds ==
    /\ UNCHANGED <<detectVars, dl>>
    /\ pc = "install_exe" /\ proc = "none"
    /\ exeIdx <= Len(silent_args_list(silentArgs))
    /\ LET list == silent_args_list(silentArgs) IN
       \E ok \in BOOLEAN :
         IF ok
           THEN /\ launches' = Append(launches, Launch("exe", list[exeIdx]))
                /\ proc' = "running"
                /\ UNCHANGED <<exeIdx, pc, outcome, result>>
           ELSE /\ launches' = Append(launches, Raised("exe", list[exeIdx]))
                /\ Return(FALSE, 0 - 1)
                /\ UNCHANGED <<exeIdx, proc>>
    /\ UNCHANGED <<entry, osType, fileKind, silentArgs, tier, inZip, tempDir,
                   zipTree, installer, notes>>

\* subprocess.run(f'"{file_path}" {args}') of the current candidate
InstallExeLaunch ==
    /\ UNCHANGED <<detectVars, dl>>
    /\ pc = "install_exe" /\ proc = "none"
    /\ exeIdx <= Len(silent_args_list(silentArgs))
    /\ LET list == silent_args_list(silentArgs) IN
       \E ok \in BOOLEAN :
         IF ok
           THEN /\ launches' = Append(launches, Launch("exe", list[exeIdx]))
                /\ proc' = "running"
                /\ UNCHANGED exeIdx
           ELSE \* except Exception: continue
                /\ launches' = Append(launches, Raised("exe", list[exeIdx]))
                /\ exeIdx' = NextCandidate(list, exeIdx + 1)
                /\ UNCHANGED proc
    /\ UNCHANGED <<pc, entry, osType, fileKind, silentArgs, tier, outcome,
                   result, inZip, tempDir, zipTree, installer, notes>>

InstallExeExit(c) ==
    /\ UNCHANGED <<detectVars, dl>>
    /\ pc = "install_exe" /\ proc = "running"
    /\ exeIdx <= Len(silent_args_list(silentArgs))
    /\ launches' = Exited(launches, c)
    /\ proc' = "none"
    /\ IF ExeAccepted(c)
         THEN Return(TRUE, c) /\ UNCHANGED exeIdx
         ELSE /\ exeIdx' = NextCandidate(silent_args_list(silentArgs),
                                         exeIdx + 1)
              /\ UNCHANGED <<pc, outcome, result>>
    /\ UNCHANGED <<entry, osType, fileKind, silentArgs, tier, inZip, tempDir,
                   zipTree, installer, notes>>

\* all candidates failed: subprocess.run(f'"{file_path}"')
InstallExeFinalLaunch ==
    /\ UNCHANGED <<detectVars, dl>>
    /\ pc = "install_exe" /\ proc = "none"
    /\ exeIdx > Len(silent_args_list(silentArgs))
    /\ \E ok \in BOOLEAN :
         IF ok
           THEN /\ launches' = Append(launches, Launch("exe", None))
                /\ proc' = "running"
                /\ UNCHANGED <<pc, outcome, result>>
           ELSE /\ launches' = Append(launches, Raised("exe", None))
                /\ InstallExeFinalExcept
                /\ UNCHANGED proc
    /\ UNCHANGED <<entry, osType, fileKind, silentArgs, exeIdx, tier, inZip,
                   tempDir, zipTree, installer, notes>>

InstallExeFinalExit(c) ==
    /\ UNCHANGED <<detectVars, dl>>
    /\ pc = "install_exe" /\ proc = "running"
    /\ exeIdx > Len(silent_args_list(silentArgs))
    /\ launches' = Exited(launches, c)
    /\ proc' = "none"
    /\ Return(ExeFinalSuccess(c), c)
    /\ UNCHANGED <<entry, osType, fileKind, silentArgs, exeIdx, tier, inZip,
                   tempDir, zipTree, installer, notes>>

(***************************************************************************)
(* install_msi                                                             *)
(***************************************************************************)
\* variant: the reboot codes are not accepted
MsiAccepted_ZeroOnly(c) == c = 0

\* result.returncode in [0, 3010, 1641]
MsiAccepted(c) == c \in {0, RebootRequired, RebootInitiated}

InstallMsiExcept == Return(FALSE, 0 - 1)

\* subprocess.run('msiexec.exe /i "<file>" /qn /norestart')
InstallMsiLaunch ==
    /\ UNCHANGED <<detectVars, dl>>
    /\ pc = "install_msi" /\ proc = "none"
    /\ \E ok \in BOOLEAN :
         IF ok
           THEN /\ launches' = Append(launches,
                                      Launch("msiexec", "/qn /norestart"))
                /\ proc' = "running"
                /\ UNCHANGED <<pc, outcome, result>>
           ELSE /\ launches' = Append(launches,
                                      Raised("msiexec", "/qn /norestart"))
                /\ InstallMsiExcept
                /\ UNCHANGED proc
    /\ UNCHANGED <<entry, osType, fileKind, silentArgs, exeIdx, tier, inZip,
                   tempDir, zipTree, installer, notes>>

InstallMsiExit(c) ==
    /\ UNCHANGED <<detectVars, dl>>
    /\ pc = "install_msi" /\ proc = "running"
    /\ launches' = Exited(launches, c)
    /\ proc' = "none"
    /\ Return(MsiAccepted(c), c)
    /\ UNCHANGED <<entry, osType, fileKind, silentArgs, exeIdx, tier, inZip,
                   tempDir, zipTree, installer, notes>>

(***************************************************************************)
(* install_deb                                                             *)
(***************************************************************************)
\* dpkg -i "<file>", then apt install -y "<file>"
DebTools == <<"dpkg", "apt">>
DebArgs == <<"-i", "install -y">>

\* variant: the exit code of the tool is not looked at
DebSucceeded_Always(c) == TRUE

\* if result.returncode == 0: return True, result.returncode
DebSucceeded(c) == c = 0

\* variant: no except clause, the exception leaves install_deb and reaches
\* the caller of install_driver
InstallDebExcept_Propagates ==
    /\ pc' = "raised"
    /\ UNCHANGED <<outcome, result>>

\* except Exception: return False, -1
InstallDebExcept == Return(FALSE, 0 - 1)

InstallDebLaunch ==
    /\ UNCHANGED <<detectVars, dl>>
    /\ pc = "install_deb" /\ proc = "none"
    /\ \E ok \in BOOLEAN :
         IF ok
           THEN /\ launches' = Append(launches,
                                      Launch(DebTools[tier], DebArgs[tier]))
                /\ proc' = "running"
                /\ UNCHANGED <<pc, outcome, result>>
           ELSE /\ launches' = Append(launches,
                                      Raised(DebTools[tier], DebArgs[tier]))
                /\ InstallDebExcept
                /\ UNCHANGED proc
    /\ UNCHANGED <<entry, osType, fileKind, silentArgs, exeIdx, tier, inZip,
                   tempDir, zipTree, installer, notes>>

InstallDebExit(c) ==
    /\ UNCHANGED <<detectVars, dl>>
    /\ pc = "install_deb" /\ proc = "running"
    /\ launches' = Exited(launches, c)
    /\ proc' = "none"
    /\ IF DebSucceeded(c)
         THEN Return(TRUE, c) /\ UNCHANGED tier
         ELSE IF tier < Len(DebTools)
           THEN tier' = tier + 1 /\ UNCHANGED <<pc, outcome, result>>
           ELSE Return(FALSE, c) /\ UNCHANGED tier
    /\ UNCHANGED <<entry, osType, fileKind, silentArgs, exeIdx, inZip,
                   tempDir, zipTree, installer, notes>>

(***************************************************************************)
(* install_rpm                                                             *)
(***************************************************************************)
\* variant: yum is tried before dnf
RpmTools_YumFirst == <<"rpm", "yum", "dnf">>

\* rpm -i "<file>", then dnf install -y, then yum install -y
RpmTools == <<"rpm", "dnf", "yum">>
RpmArgs == <<"-i", "install -y", "install -y">>

\* variant: any exit code that is not negative counts as success
RpmSucceeded_NonNegative(c) == c >= 0

RpmSucceeded(c) == c = 0

InstallRpmExcept == Return(FALSE, 0 - 1)

InstallRpmLaunch ==
    /\ UNCHANGED <<detectVars, dl>>
    /\ pc = "install_rpm" /\ proc = "none"
    /\ \E ok \in BOOLEAN :
         IF ok
           THEN /\ launches' = Append(launches,
                                      Launch(RpmTools[tier], RpmArgs[tier]))
                /\ proc' = "running"
                /\ UNCHANGED <<pc, outcome, result>>
           ELSE /\ launches' = Append(launches,
                                      Raised(RpmTools[tier], RpmArgs[tier]))
                /\ InstallRpmExcept
                /\ UNCHANGED proc
    /\ UNCHANGED <<entry, osType, fileKind, silentArgs, exeIdx, tier, inZip,
                   tempDir, zipTree, installer, notes>>

InstallRpmExit(c) ==
    /\ UNCHANGED <<detectVars, dl>>
    /\ pc = "install_rpm" /\ proc = "running"
    /\ launches' = Exited(launches, c)
    /\ proc' = "none"
    /\ IF RpmSucceeded(c)
         THEN Return(TRUE, c) /\ UNCHANGED tier
         ELSE IF tier < Len(RpmTools)
           THEN tier' = tier + 1 /\ UNCHANGED <<pc, outcome, result>>
           ELSE Return(FALSE, c) /\ UNCHANGED tier
    /\ UNCHANGED <<entry, osType, fileKind, silentArgs, exeIdx, inZip,
                   tempDir, zipTree, installer, notes>>

(***************************************************************************)
(* install_zip                                                             *)
(***************************************************************************)
\* Path.suffix.lower() on the suffixes above
SuffixLower(x) == IF x = ".EXE" THEN ".exe" ELSE x

\* temp_path.rglob(pattern): the members matching the pattern (the match is
\* case-insensitive on Windows), as a list in directory order
RECURSIVE SetToSeq(_)
SetToSeq(S) ==
    IF S = {} THEN << >>
    ELSE LET m == CHOOSE x \in S : \A y \in S : x.rank >= y.rank
         IN  <<m>> \o SetToSeq(S \ {m})

rglob(tree, suffix) ==
    SetToSeq({m \in tree : SuffixLower(m.suffix) = suffix})

\* sorted(list_of_paths)
RECURSIVE Insert(_, _)
Insert(m, seq) ==
    IF seq = << >> THEN <<m>>
    ELSE IF m.rank <= Head(seq).rank THEN <<m>> \o seq
    ELSE <<Head(seq)>> \o Insert(m, Tail(seq))

\* variant: the list of installers is used as globbed, without sorting
sorted_Unsorted(seq) == seq

RECURSIVE sorted(_)
sorted(seq) ==
    IF seq = << >> THEN << >> ELSE Insert(Head(seq), sorted(Tail(seq)))

\* installers = sorted(list(rglob('*.exe')) + list(rglob('*.msi')))
Installers(tree) == sorted(rglob(tree, ".exe") \o rglob(tree, ".msi"))

\* variant: the cleanup is not in a finally clause, a failure path returns
\* without it
ZipReturn_NoCleanup(s, c) ==
    /\ outcome' = <<[success |-> s, exitCode |-> c]>>
    /\ pc' = "done"

\* except Exception of install_zip, and its "no installer found" return: the
\* finally clause runs before the function returns
ZipReturn(s, c) ==
    /\ outcome' = <<[success |-> s, exitCode |-> c]>>
    /\ pc' = "zip_finally"

\* mkdtemp, extractall, search for the installer, dispatch on its suffix
InstallZipExtract ==
    /\ UNCHANGED <<detectVars, dl>>
    /\ pc = "install_zip"
    /\ \/ \* tempfile.mkdtemp() raises: temp_dir stays None
          /\ ZipReturn(FALSE, 0 - 1)
          /\ UNCHANGED <<tempDir, zipTree, installer, inZip, silentArgs,
                         exeIdx>>
       \/ \* ZipFile / extractall raises (not a zip, disk full)
          /\ tempDir' = "exists"
          /\ ZipReturn(FALSE, 0 - 1)
          /\ UNCHANGED <<zipTree, installer, inZip, silentArgs, exeIdx>>
       \/ \E tree \in SUBSET ZipMembers :
            /\ tempDir' = "exists"
            /\ zipTree' = tree
            /\ LET installers == Installers(tree) IN
               IF installers = << >>
                 THEN /\ ZipReturn(FALSE, 0 - 1)
                      /\ UNCHANGED <<installer, inZip, silentArgs, exeIdx>>
                 ELSE /\ installer' = <<installers[1]>>
                      /\ inZip' = TRUE
                      /\ UNCHANGED outcome
                      /\ IF SuffixLower(installers[1].suffix) = ".exe"
                           THEN \* install_exe(str(installer))
                                /\ pc' = "install_exe"
                                /\ silentArgs' = None
                                /\ exeIdx' = NextCandidate(
                                               silent_args_list(None), 1)
                           ELSE \* install_msi(str(installer))
                                /\ pc' = "install_msi"
                                /\ UNCHANGED <<silentArgs, exeIdx>>
    /\ UNCHANGED <<entry, osType, fileKind, tier, proc, launches, result,
                   notes>>

\* outcome of shutil.rmtree(temp_dir) in the finally clause
Rmtree(ok) == IF ok THEN "removed" ELSE "rmfailed"

\* finally: if temp_dir: try: shutil.rmtree(temp_dir) except: log a warning
InstallZipFinally ==
    /\ UNCHANGED <<detectVars, dl>>
    /\ pc = "zip_finally"
    /\ IF tempDir = "exists"
         THEN \E ok \in BOOLEAN : tempDir' = Rmtree(ok)
         ELSE UNCHANGED tempDir
    /\ pc' = "done"
    /\ result' = <<outcome[1].success>>
    /\ UNCHANGED <<entry, osType, fileKind, silentArgs, exeIdx, tier, proc,
                   launches, outcome, inZip, zipTree, installer, notes>>

(***************************************************************************)
(* install_driver                                                          *)
(***************************************************************************)
\* driver_type = entry.get('type', '').lower()
DriverType(e) == Lower(e.type)

\* variant: the OS is looked at before the manual type
Dispatch_OsFirst(driver_type, os_type) ==
    IF os_type = "Windows" THEN
        IF driver_type = "manual" THEN "manual"
        ELSE IF driver_type = "exe" THEN "install_exe"
        ELSE IF driver_type = "msi" THEN "install_msi"
        ELSE IF driver_type = "zip" THEN "install_zip"
        ELSE "unsupported"
    ELSE IF os_type = "Linux" THEN
        IF driver_type = "manual" THEN "manual"
        ELSE IF driver_type = "deb" THEN "install_deb"
        ELSE IF driver_type = "rpm" THEN "install_rpm"
        ELSE "unsupported"
    ELSE "unsupported"

\* variant: a Windows type that is neither msi nor zip is run as an exe
Dispatch_DefaultExe(driver_type, os_type) ==
    IF driver_type = "manual" THEN "manual"
    ELSE IF os_type = "Windows" THEN
        IF driver_type = "msi" THEN "install_msi"
        ELSE IF driver_type = "zip" THEN "install_zip"
        ELSE "install_exe"
    ELSE IF os_type = "Linux" THEN
        IF driver_type = "deb" THEN "install_deb"
        ELSE IF driver_type = "rpm" THEN "install_rpm"
        ELSE "unsupported"
    ELSE "unsupported"

\* the branch install_driver, _install_windows_driver and
\* _install_linux_driver take for (driver_type, os_type)
Dispatch(driver_type, os_type) ==
    IF driver_type = "manual" THEN "manual"
    ELSE IF os_type = "Windows" THEN
        IF driver_type = "exe" THEN "install_exe"
        ELSE IF driver_type = "msi" THEN "install_msi"
        ELSE IF driver_type = "zip" THEN "install_zip"
        ELSE "unsupported"
    ELSE IF os_type = "Linux" THEN
        IF driver_type = "deb" THEN "install_deb"
        ELSE IF driver_type = "rpm" THEN "install_rpm"
        ELSE "unsupported"
    ELSE "unsupported"

\* create_manual_note(entry, work_dir): the note is opened for writing at
\* Path(work_dir) / "<name>.manual.txt"; open() succeeds only if work_dir is
\* a directory, and a failure is logged, not raised.  The value is the set of
\* directories holding a note afterwards.
create_manual_note(work_dir_kind, open_ok) ==
    IF work_dir_kind = "dir" /\ open_ok
      THEN notes \cup {"file_path"}
      ELSE notes

InstallDriver(e, os_type, file_kind) ==
    /\ UNCHANGED <<detectVars, dl>>
    /\ pc = "idle"
    /\ entry' = e
    /\ osType' = os_type
    /\ fileKind' = file_kind
    /\ LET branch == Dispatch(DriverType(e), os_type) IN
       /\ IF branch = "manual"
            THEN \* create_manual_note(entry, file_path); return True
                 /\ \E open_ok \in BOOLEAN :
                      notes' = create_manual_note(file_kind, open_ok)
                 /\ pc' = "done"
                 /\ result' = <<TRUE>>
            ELSE IF branch = "unsupported"
              THEN /\ pc' = "done"
                   /\ result' = <<FALSE>>
                   /\ UNCHANGED notes
              ELSE /\ pc' = branch
                   /\ UNCHANGED <<result, notes>>
       /\ silentArgs' = IF branch = "install_exe" THEN e.silentArgs
                        ELSE silentArgs
       /\ exeIdx' = IF branch = "install_exe"
                      THEN NextCandidate(silent_args_list(e.silentArgs), 1)
                      ELSE exeIdx
    /\ UNCHANGED <<tier, proc, launches, outcome, inZip, tempDir, zipTree,
                   installer>>

\* silentArgs is read by the exe branch only and the kind of file_path by the
\* manual branch only: the other entries are called with one value of each
Entries ==
    {e \in [name : {"Unknown"}, type : TypeValues,
            silentArgs : SilentArgsValues] :
        e.silentArgs # None => DriverType(e) = "exe"}

FileKindsFor(e) == IF DriverType(e) = "manual" THEN FileKinds ELSE {"file"}

Next ==
    \/ \E e \in Entries, os \in OsTypeValues :
         \E fk \in FileKindsFor(e) : InstallDriver(e, os, fk)
    \/ InstallExeLaunch
    \/ \E c \in ExitCodes : InstallExeExit(c)
    \/ InstallExeFinalLaunch
    \/ \E c \in ExitCodes : InstallExeFinalExit(c)
    \/ InstallMsiLaunch
    \/ \E c \in ExitCodes : InstallMsiExit(c)
    \/ InstallDebLaunch
    \/ \E c \in ExitCodes : InstallDebExit(c)
    \/ InstallRpmLaunch
    \/ \E c \in ExitCodes : InstallRpmExit(c)
    \/ InstallZipExtract
    \/ InstallZipFinally

Spec == Init /\ [][Next]_vars

(***************************************************************************)
(* Properties of the installation orchestrator                             *)
(***************************************************************************)
Last(seq) == seq[Len(seq)]

Returned == pc = "done"

ExitedWith(l, c) == l.status = "exited" /\ l.code = c

Failure == [success |-> FALSE, exitCode |-> 0 - 1]

\* the call runs the exe cascade, directly or on the installer of a zip
RunsExe ==
    \/ osType = "Windows" /\ Lower(entry.type) = "exe"
    \/ installer # << >> /\ installer[1].suffix \in {".exe", ".EXE"}

RunsMsi ==
    \/ osType = "Windows" /\ Lower(entry.type) = "msi"
    \/ installer # << >> /\ installer[1].suffix = ".msi"

RunsDeb == osType = "Linux" /\ Lower(entry.type) = "deb"

RunsRpm == osType = "Linux" /\ Lower(entry.type) = "rpm"

RunsZip == osType = "Windows" /\ Lower(entry.type) = "zip"

FallbackFlags ==
    <<"/S", "/silent", "/quiet", "/verysilent", "/s", "/s /v\"/qn\"",
      "/S /v\"/qn\"">>

\* the flag sets install_exe is to try for custom flags sa
Candidates(sa) == IF sa = None THEN FallbackFlags ELSE <<sa>> \o FallbackFlags

AcceptedCodes == {0, 3010, 1641}

\* C2: the launches of install_exe follow the candidate order (custom flags
\* first when given, then the fixed fallback flags); a launch exiting with
\* 0, 3010 or 1641 is the last launch and the outcome is (True, that code);
\* custom flags exiting 1 then /S exiting 0 gives (True, 0) after two launches.
C2_ExeCascadeOrder ==
    RunsExe =>
      /\ \A i \in 1..Len(launches) :
           /\ launches[i].tool = "exe"
           /\ i <= Len(Candidates(silentArgs))
                => launches[i].args = Candidates(silentArgs)[i]
           /\ (i <= Len(Candidates(silentArgs))
                 /\ launches[i].status = "exited"
                 /\ launches[i].code \in AcceptedCodes)
                => /\ i = Len(launches)
                   /\ outcome = <<[success |-> TRUE,
                                   exitCode |-> launches[i].code]>>
           /\ i < Len(launches) => launches[i].status # "running"
      /\ (~inZip /\ entry.silentArgs # None /\ launches # << >>)
           => launches[1].args = entry.silentArgs
      /\ (inZip /\ launches # << >>) => launches[1].args = "/S"
      /\ (Len(launches) >= 2 /\ launches[1].args = "/CUSTOM"
            /\ ExitedWith(launches[1], 1) /\ ExitedWith(launches[2], 0))
           => /\ Len(launches) = 2
              /\ launches[2].args = "/S"
              /\ outcome = <<[success |-> TRUE, exitCode |-> 0]>>

C2_Witness ==
    /\ Returned
    /\ entry.silentArgs = "/CUSTOM"
    /\ Len(launches) = 2
    /\ launches[1].args = "/CUSTOM" /\ ExitedWith(launches[1], 1)
    /\ launches[2].args = "/S" /\ ExitedWith(launches[2], 0)
    /\ outcome = <<[success |-> TRUE, exitCode |-> 0]>>
    /\ result = <<TRUE>>

\* C3: a launch without flags is made only as launch number
\* Len(candidates) + 1, after every flagged launch failed, and it is the last
\* launch; a call whose flagged launches all failed returns only after it;
\* the outcome is then (False, raw exit code), or (False, -1) if it raised.
C3_FlagFreeLastResort ==
    RunsExe =>
      LET n == Len(Candidates(silentArgs)) IN
      /\ \A i \in 1..Len(launches) :
           launches[i].args = None
             => /\ i = n + 1 /\ i = Len(launches)
                /\ \A j \in 1..n :
                     \/ launches[j].status = "raised"
                     \/ /\ launches[j].status = "exited"
                        /\ launches[j].code \notin AcceptedCodes
      /\ Len(launches) <= n + 1
      /\ (Len(outcome) = 1 /\ outcome[1].success = FALSE)
           => Len(launches) = n + 1
      /\ (Len(outcome) = 1 /\ Len(launches) = n + 1)
           => /\ outcome[1].success = FALSE
              /\ Last(launches).status = "exited"
                   => outcome[1].exitCode = Last(launches).code
              /\ Last(launches).status = "raised"
                   => outcome[1].exitCode = 0 - 1

C3_Witness ==
    /\ Returned /\ RunsExe
    /\ Len(launches) = Len(Candidates(silentArgs)) + 1
    /\ Last(launches).args = None
    /\ ExitedWith(Last(launches), 0)
    /\ outcome = <<[success |-> FALSE, exitCode |-> 0]>>
    /\ result = <<FALSE>>

\* C4: install_deb launches dpkg first; apt is launched only after dpkg
\* exited nonzero, and the call does not return after a nonzero dpkg exit
\* without launching apt; the outcome carries the exit code of the last
\* launch (-1 if it raised) and success is true exactly when that code is 0.
C4_DebFallback ==
    RunsDeb =>
      /\ Len(launches) <= 2
      /\ Len(launches) >= 1 => launches[1].tool = "dpkg"
      /\ Len(launches) = 2
           => /\ launches[2].tool = "apt"
              /\ launches[1].status = "exited" /\ launches[1].code # 0
      /\ (Len(outcome) = 1 /\ launches[1].status = "exited"
            /\ launches[1].code # 0)
           => Len(launches) = 2
      /\ Len(outcome) = 1
           => /\ Last(launches).status = "exited"
                   => outcome[1].exitCode = Last(launches).code
              /\ Last(launches).status = "raised"
                   => outcome[1].exitCode = 0 - 1
              /\ outcome[1].success <=> outcome[1].exitCode = 0

C4_Witness ==
    /\ Returned /\ RunsDeb
    /\ Len(launches) = 2
    /\ launches[1].tool = "dpkg" /\ ExitedWith(launches[1], 1)
    /\ launches[2].tool = "apt" /\ ExitedWith(launches[2], 0)
    /\ outcome = <<[success |-> TRUE, exitCode |-> 0]>>

\* the order of the tiers and the stop at the first zero exit code
RpmTierOrder ==
    /\ Len(launches) <= 3
    /\ \A i \in 1..Len(launches) :
         /\ launches[i].tool = <<"rpm", "dnf", "yum">>[i]
         /\ \A j \in 1..(i - 1) :
              launches[j].status = "exited" /\ launches[j].code # 0

RpmSomeTierExitedZero == \E i \in 1..Len(launches) : ExitedWith(launches[i], 0)

\* C5 as stated: rpm, dnf, yum in order, a later tier only after nonzero
\* exits of the earlier ones, and the outcome is (True, 0) if a tier exited 0
\* and (False, exit code of yum) otherwise.
C5_Original ==
    RunsRpm =>
      /\ RpmTierOrder
      /\ Len(outcome) = 1 =>
           IF RpmSomeTierExitedZero
             THEN outcome[1] = [success |-> TRUE, exitCode |-> 0]
             ELSE /\ Len(launches) = 3
                  /\ launches[3].status = "exited"
                  /\ outcome[1] = [success |-> FALSE,
                                   exitCode |-> launches[3].code]

\* C5 amended: as C5, except that a launch that raises ends the cascade with
\* (False, -1); (False, exit code of yum) is the outcome when all three tiers
\* exited nonzero.
C5_RpmFallback ==
    RunsRpm =>
      /\ RpmTierOrder
      /\ Len(outcome) = 1 =>
           IF RpmSomeTierExitedZero
             THEN outcome[1] = [success |-> TRUE, exitCode |-> 0]
             ELSE IF Last(launches).status = "raised"
               THEN outcome[1] = Failure
               ELSE /\ Len(launches) = 3
                    /\ launches[3].status = "exited"
                    /\ outcome[1] = [success |-> FALSE,
                                     exitCode |-> launches[3].code]

C5_Witness ==
    /\ Returned /\ RunsRpm
    /\ Len(launches) = 3
    /\ ExitedWith(launches[1], 1) /\ ExitedWith(launches[2], 1)
    /\ launches[3].tool = "yum" /\ ExitedWith(launches[3], 1)
    /\ outcome = <<[success |-> FALSE, exitCode |-> 1]>>

\* C6: install_msi makes one launch, msiexec in quiet no-restart mode; it
\* returns after that launch, success is true exactly when the process exited
\* with 0, 3010 or 1641, and the outcome carries the process exit code.
C6_MsiSingleAttempt ==
    RunsMsi =>
      /\ Len(launches) <= 1
      /\ Len(launches) = 1
           => /\ launches[1].tool = "msiexec"
              /\ launches[1].args = "/qn /norestart"
      /\ Len(outcome) = 1
           => /\ Len(launches) = 1
              /\ outcome[1].success
                   <=> /\ launches[1].status = "exited"
                       /\ launches[1].code \in AcceptedCodes
              /\ launches[1].status = "exited"
                   => outcome[1].exitCode = launches[1].code

C6_Witness ==
    /\ Returned /\ RunsMsi /\ ~inZip
    /\ Len(launches) = 1
    /\ ExitedWith(launches[1], 3010)
    /\ outcome = <<[success |-> TRUE, exitCode |-> 3010]>>
    /\ result = <<TRUE>>

\* C7: a call for an entry of type manual has returned True, whatever the
\* osType, and no process was launched.
C7_ManualSucceeds ==
    (pc # "idle" /\ Lower(entry.type) = "manual")
      => /\ Returned
         /\ result = <<TRUE>>
         /\ launches = << >>
         /\ proc = "none"

C7_Witness ==
    /\ Returned
    /\ entry.type = "manual"
    /\ osType = "Darwin"
    /\ result = <<TRUE>>
    /\ launches = << >>

\* C8: after a call for an entry of type manual with the path of the driver
\* file, a note file exists.
C8_ManualNoteCreated ==
    (Returned /\ Lower(entry.type) = "manual" /\ fileKind = "file")
      => notes # {}

\* the (osType, type) pairs install_driver supports
Supported(os, t) ==
    \/ t = "manual"
    \/ os = "Windows" /\ t \in {"exe", "msi", "zip"}
    \/ os = "Linux" /\ t \in {"deb", "rpm"}

\* C9: a call for an unsupported (osType, type) pair has returned False, no
\* process was launched and neither a note nor a temporary directory was
\* created.
C9_UnsupportedFails ==
    (pc # "idle" /\ ~Supported(osType, Lower(entry.type)))
      => /\ Returned
         /\ result = <<FALSE>>
         /\ launches = << >>
         /\ proc = "none"
         /\ notes = {}
         /\ tempDir = "none"

C9_Witness ==
    /\ Returned
    /\ osType = "windows" /\ entry.type = "exe"
    /\ result = <<FALSE>>
    /\ launches = << >>

\* C10 as stated: when install_zip has returned, the temporary directory
\* does not exist.
C10_Original ==
    (Returned /\ RunsZip) => tempDir \in {"none", "removed"}

\* C10 amended: when install_zip has returned, the removal of the temporary
\* directory has been attempted if the directory was created, and the
\* directory is gone unless that removal failed; the removal is attempted
\* only after every launched process has finished; the step that removes the
\* directory leaves the outcome as it was and returns its success flag.
C10_TempDirCleanup ==
    /\ [](/\ (Returned /\ RunsZip) => tempDir \in {"none", "removed",
                                                    "rmfailed"}
          /\ tempDir \in {"removed", "rmfailed"}
               => /\ Returned /\ proc = "none"
                  /\ \A i \in 1..Len(launches) :
                       launches[i].status # "running")
    /\ [][pc = "zip_finally"
            => /\ outcome' = outcome
               /\ result' = <<outcome[1].success>>
               /\ launches' = launches]_vars

C10_Witness ==
    /\ Returned /\ RunsZip
    /\ tempDir = "rmfailed"
    /\ Len(launches) >= 1
    /\ outcome = <<[success |-> TRUE, exitCode |-> 0]>>
    /\ result = <<TRUE>>

\* the members of the extracted tree that are .exe or .msi files
InstallerMembers == {m \in zipTree : m.suffix \in {".exe", ".EXE", ".msi"}}

\* C11: install_zip picks, among the .exe and .msi members of the extracted
\* tree, the one first in sorted path order; every launch of the call is the
\* exe cascade if it is an .exe and msiexec if it is an .msi, and the call
\* returns the success of that nested outcome; with no .exe or .msi in the
\* tree nothing is launched and the outcome is (False, -1).
C11_ZipInstallerChoice ==
    RunsZip =>
      /\ installer # << >>
           => /\ installer[1] \in InstallerMembers
              /\ \A m \in InstallerMembers : installer[1].rank <= m.rank
              /\ \A i \in 1..Len(launches) :
                   launches[i].tool =
                     IF installer[1].suffix \in {".exe", ".EXE"}
                       THEN "exe" ELSE "msiexec"
      /\ (pc \notin {"idle", "install_zip"} /\ InstallerMembers # {})
           => installer # << >>
      /\ InstallerMembers = {}
           => /\ installer = << >>
              /\ launches = << >>
              /\ Len(outcome) = 1 => outcome = <<Failure>>
      /\ Returned => result = <<outcome[1].success>>

C11_Witness ==
    /\ Returned /\ RunsZip
    /\ zipTree = {m \in ZipMembers : m.path \in {"b/setup.msi", "d/SETUP.EXE"}}
    /\ installer[1].path = "b/setup.msi"
    /\ Len(launches) = 1 /\ launches[1].tool = "msiexec"
    /\ ExitedWith(launches[1], 0)
    /\ result = <<TRUE>>

(***************************************************************************)
(* Strings (src/utils/driver_detector.py works on Python str)              *)
(***************************************************************************)
LowercaseLetters == "abcdefghijklmnopqrstuvwxyz"
UppercaseLetters == "ABCDEFGHIJKLMNOPQRSTUVWXYZ"

CharAt(s, i) == SubSeq(s, i, i)

\* position of character ch in alphabet, 0 if it is not in it
PosIn(alphabet, ch) ==
    IF \E i \in 1..Len(alphabet) : CharAt(alphabet, i) = ch
      THEN CHOOSE i \in 1..Len(alphabet) : CharAt(alphabet, i) = ch
      ELSE 0

\* str.upper()
RECURSIVE upper(_)
upper(s) ==
    IF s = "" THEN ""
    ELSE LET ch == CharAt(s, 1)
             k == PosIn(LowercaseLetters, ch)
         IN  (IF k = 0 THEN ch ELSE CharAt(UppercaseLetters, k))
               \o upper(SubSeq(s, 2, Len(s)))

\* str.lower()
RECURSIVE lower(_)
lower(s) ==
    IF s = "" THEN ""
    ELSE LET ch == CharAt(s, 1)
             k == PosIn(UppercaseLetters, ch)
         IN  (IF k = 0 THEN ch ELSE CharAt(LowercaseLetters, k))
               \o lower(SubSeq(s, 2, Len(s)))

\* s.find(sub, start) with positions counted from 1: the first position
\* >= start at which sub occurs in s, 0 if there is none
RECURSIVE find(_, _, _)
find(s, sub, start) ==
    IF start + Len(sub) - 1 > Len(s) THEN 0
    ELSE IF SubSeq(s, start, start + Len(sub) - 1) = sub THEN start
    ELSE find(s, sub, start + 1)

\* sub in s
contains(s, sub) == find(s, sub, 1) # 0

\* s.replace(old, ''): the non-overlapping occurrences of old, found from left
\* to right, are removed
RECURSIVE remove(_, _)
remove(s, old) ==
    IF Len(s) < Len(old) THEN s
    ELSE IF SubSeq(s, 1, Len(old)) = old
      THEN remove(SubSeq(s, Len(old) + 1, Len(s)), old)
      ELSE CharAt(s, 1) \o remove(SubSeq(s, 2, Len(s)), old)

(***************************************************************************)
(* normalize_device_id                                                     *)
(***************************************************************************)
\* device_id.replace('PCI\\', '').replace('HDAUDIO\\', '')
\*          .replace('USB\\', '').replace('ACPI\\', '')
strip_prefixes(device_id) ==
    remove(remove(remove(remove(device_id, "PCI\\"), "HDAUDIO\\"), "USB\\"),
           "ACPI\\")

\* the text after the token at tok_pos up to the next '&' or the end
token_value(device_id, tok_pos) ==
    LET start == tok_pos + 4
        end == IF contains(SubSeq(device_id, start, Len(device_id)), "&")
                 THEN find(device_id, "&", start)
                 ELSE Len(device_id) + 1
    IN  SubSeq(device_id, start, end - 1)

normalize_device_id(device_id) ==
    IF device_id = "" THEN ""
    ELSE LET id == strip_prefixes(upper(device_id)) IN
         IF contains(id, "VEN_") /\ contains(id, "DEV_")
           THEN "VEN_" \o token_value(id, find(id, "VEN_", 1))
                  \o "&DEV_" \o token_value(id, find(id, "DEV_", 1))
           ELSE id

\* fragments of device identifiers
IdChunks ==
    {"PCI\\", "P", "CI\\", "usb\\", "VEN_8086", "&DEV_2723", "dev_1", "&",
     "&SUBSYS_1234", "ven_10ec"}

\* identifiers as the operating system and the manifests write them
IdExamples ==
    {"PCI\\VEN_8086&DEV_2723", "PCI\\VEN_8086&DEV_2723&SUBSYS_1234&REV_01",
     "HDAUDIO\\FUNC_01&VEN_10EC&DEV_0887", "ACPI\\PNP0C09",
     "USB\\VID_8087&PID_0026"}

RECURSIVE Concats(_, _)
Concats(chunks, n) ==
    IF n = 0 THEN {""}
    ELSE LET shorter == Concats(chunks, n - 1)
         IN  shorter \cup {p \o ch : p \in shorter, ch \in chunks}

DeviceIds == Concats(IdChunks, MaxIdChunks) \cup IdExamples

InitNormalize ==
    /\ InstallerIdle /\ VerIdle /\ ReconIdle /\ DownloadIdle
    /\ norm \in [x : DeviceIds, out : {<< >>}]

\* normalize_device_id is called on the input, then on its own output
NormalizeDeviceId ==
    /\ Len(norm.out) < 2
    /\ norm' = [norm EXCEPT !.out =
                  Append(@, normalize_device_id(
                              IF @ = << >> THEN norm.x ELSE @[Len(@)]))]
    /\ UNCHANGED <<installVars, ver, recon, dl>>

NextNormalize == NormalizeDeviceId

SpecNormalize == InitNormalize /\ [][NextNormalize]_vars

(***************************************************************************)
(* Properties of normalize_device_id                                       *)
(***************************************************************************)
\* C12: normalize_device_id is idempotent: called on its own output it
\* returns that output.
C12_NormalizeIdempotent ==
    Len(norm.out) = 2 => norm.out[2] = norm.out[1]

BusPrefixes == {"PCI\\", "USB\\", "ACPI\\", "HDAUDIO\\"}

HasBusPrefix(s) == \E p \in BusPrefixes : contains(s, p)

\* s with the bus prefixes stripped: no bus prefix is left in it
RECURSIVE PrefixStripped(_)
PrefixStripped(s) ==
    IF ~HasBusPrefix(s) THEN s
    ELSE LET p == CHOOSE q \in BusPrefixes : contains(s, q)
         IN  PrefixStripped(remove(s, p))

\* the text of s after the first occurrence of token, up to the next '&' or
\* the end of s
ValueAfter(s, token) ==
    LET start == find(s, token, 1) + Len(token)
        stops == {i \in start..Len(s) : CharAt(s, i) = "&"}
        end == IF stops = {} THEN Len(s) + 1
               ELSE CHOOSE i \in stops : \A j \in stops : i <= j
    IN  SubSeq(s, start, end - 1)

\* the key the claim describes for identifier x
DescribedKey(x) ==
    LET s == PrefixStripped(upper(x)) IN
    IF contains(s, "VEN_") /\ contains(s, "DEV_")
      THEN "VEN_" \o ValueAfter(s, "VEN_") \o "&DEV_" \o ValueAfter(s, "DEV_")
      ELSE s

\* C13: the output is the uppercased input with the bus prefixes stripped,
\* reduced to VEN_<vendor>&DEV_<device> when both tokens are present (each
\* value running to the next '&' or the end), so that a further '&' suffix
\* does not change the key; the empty input gives the empty output.
C13_NormalizeDescribed ==
    Len(norm.out) >= 1 =>
      /\ norm.x = "" => norm.out[1] = ""
      /\ norm.out[1] = DescribedKey(norm.x)
      /\ (contains(norm.out[1], "VEN_") /\ contains(norm.out[1], "DEV_"))
           => normalize_device_id(norm.x \o "&SUBSYS_1234&REV_01")
                = norm.out[1]

(***************************************************************************)
(* compare_versions                                                        *)
(***************************************************************************)
Digits == "0123456789"

\* the characters of the model in code point order (str < str compares by it)
CodePoints ==
    "-." \o Digits \o UppercaseLetters \o "_" \o LowercaseLetters

\* s.split(sep) for a one-character separator
RECURSIVE split(_, _)
split(s, sep) ==
    LET k == find(s, sep, 1) IN
    IF k = 0 THEN <<s>>
    ELSE <<SubSeq(s, 1, k - 1)>> \o split(SubSeq(s, k + 1, Len(s)), sep)

\* x.isdigit(): x is not empty and all its characters are digits
isdigit(x) ==
    /\ x # ""
    /\ \A i \in 1..Len(x) : PosIn(Digits, CharAt(x, i)) # 0

\* int(x) of a string of decimal digits
RECURSIVE int(_)
int(x) ==
    IF x = "" THEN 0
    ELSE 10 * int(SubSeq(x, 1, Len(x) - 1))
           + (PosIn(Digits, CharAt(x, Len(x))) - 1)

\* int(x) raises ValueError: x has a character that is no decimal digit.  It
\* is called on components isdigit() accepted, and over the characters of the
\* model isdigit() accepts decimal digits only.
int_raises(x) == \E i \in 1..Len(x) : PosIn(Digits, CharAt(x, i)) = 0

\* variant: a component that is not numeric counts as 0 instead of being
\* dropped
RECURSIVE numeric_parts_ZeroForText(_)
numeric_parts_ZeroForText(components) ==
    IF components = << >> THEN << >>
    ELSE (IF isdigit(Head(components)) THEN <<int(Head(components))>>
          ELSE <<0>>)
           \o numeric_parts_ZeroForText(Tail(components))

\* [int(x) for x in components if x.isdigit()]
RECURSIVE numeric_parts(_)
numeric_parts(components) ==
    IF components = << >> THEN << >>
    ELSE (IF isdigit(Head(components)) THEN <<int(Head(components))>>
          ELSE << >>)
           \o numeric_parts(Tail(components))

\* variant: the shorter list is not padded
extend_NoPadding(parts, max_len) == parts

\* parts.extend([0] * (max_len - len(parts)))
extend(parts, max_len) ==
    parts \o [i \in 1..(max_len - Len(parts)) |-> 0]

\* for p1, p2 in zip(parts1, parts2): return -1 / 1 at the first difference
RECURSIVE zip_compare(_, _)
zip_compare(parts1, parts2) ==
    IF parts1 = << >> \/ parts2 = << >> THEN 0
    ELSE IF Head(parts1) < Head(parts2) THEN 0 - 1
    ELSE IF Head(parts1) > Head(parts2) THEN 1
    ELSE zip_compare(Tail(parts1), Tail(parts2))

\* s1 < s2 on str: the first differing character decides, a proper prefix is
\* smaller
RECURSIVE str_less(_, _)
str_less(s1, s2) ==
    IF s2 = "" THEN FALSE
    ELSE IF s1 = "" THEN TRUE
    ELSE IF CharAt(s1, 1) = CharAt(s2, 1)
      THEN str_less(SubSeq(s1, 2, Len(s1)), SubSeq(s2, 2, Len(s2)))
      ELSE PosIn(CodePoints, CharAt(s1, 1)) < PosIn(CodePoints, CharAt(s2, 1))

\* the except (ValueError, AttributeError) branch: string comparison
string_comparison(version1, version2) ==
    IF str_less(version1, version2) THEN 0 - 1
    ELSE IF str_less(version2, version1) THEN 1
    ELSE 0

Max(m, n) == IF m >= n THEN m ELSE n

compare_versions(version1, version2) ==
    IF version1 = "" \/ version2 = "" THEN 0
    ELSE LET components1 == split(version1, ".")
             components2 == split(version2, ".")
             raises == \E i \in 1..Len(components1) :
                          isdigit(components1[i]) /\ int_raises(components1[i])
             raises2 == \E i \in 1..Len(components2) :
                          isdigit(components2[i]) /\ int_raises(components2[i])
         IN  IF raises \/ raises2
               THEN string_comparison(version1, version2)
               ELSE LET parts1 == numeric_parts(components1)
                        parts2 == numeric_parts(components2)
                        max_len == Max(Len(parts1), Len(parts2))
                    IN  zip_compare(extend(parts1, max_len),
                                    extend(parts2, max_len))

\* components of version strings: numbers, a qualifier, an empty component
VersionParts == {"0", "1", "2", "10", "02", "beta", ""}

VersionExamples == {"1.2.0", "1.10.0", "22.100.0", "22.190.0", "1.2-beta"}

\* the strings of 1..n components of parts joined by '.'
RECURSIVE Dotted(_, _)
Dotted(parts, n) ==
    IF n = 1 THEN parts
    ELSE LET shorter == Dotted(parts, n - 1)
         IN  shorter \cup {v \o "." \o x : v \in shorter, x \in parts}

Versions == Dotted(VersionParts, MaxVersionParts) \cup VersionExamples

\* non-empty dotted-numeric version strings
DottedNumeric == Dotted({"0", "2", "10"}, MaxVersionParts)

InitCompare ==
    /\ InstallerIdle /\ NormIdle /\ ReconIdle /\ DownloadIdle
    /\ ver \in [a : Versions, b : Versions, c : {""}, out : {<< >>}]

InitOrder ==
    /\ InstallerIdle /\ NormIdle /\ ReconIdle /\ DownloadIdle
    /\ ver \in [a : DottedNumeric, b : DottedNumeric, c : DottedNumeric,
                out : {<< >>}]

\* compare_versions is called on the pairs of the three strings
CompareVersions ==
    /\ ver.out = << >>
    /\ ver' = [ver EXCEPT !.out =
                 <<[ab |-> compare_versions(ver.a, ver.b),
                    ba |-> compare_versions(ver.b, ver.a),
                    bc |-> compare_versions(ver.b, ver.c),
                    ac |-> compare_versions(ver.a, ver.c)]>>]
    /\ UNCHANGED <<installVars, norm, recon, dl>>

NextCompare == CompareVersions

SpecCompare == InitCompare /\ [][NextCompare]_vars

SpecOrder == InitOrder /\ [][NextCompare]_vars

(***************************************************************************)
(* Claims about compare_versions                                           *)
(***************************************************************************)
\* the purely numeric dot-separated components of v, as integers
NumericSeq(v) ==
    LET components == split(v, ".")
        kept == SelectSeq(components, isdigit)
    IN  [i \in 1..Len(kept) |-> int(kept[i])]

\* the i-th element of the sequence p padded with zeros
Padded(p, i) == IF i <= Len(p) THEN p[i] ELSE 0

\* the sign of the first position where the zero-padded sequences differ
FirstDifferenceSign(p, q) ==
    LET differ == {i \in 1..Max(Len(p), Len(q)) : Padded(p, i) # Padded(q, i)}
    IN  IF differ = {} THEN 0
        ELSE LET first == CHOOSE i \in differ : \A j \in differ : i <= j
             IN  IF Padded(p, first) < Padded(q, first) THEN 0 - 1 ELSE 1

Compared == Len(ver.out) = 1

\* C14: compare_versions returns 0 when either string is empty; otherwise it
\* returns the sign of the first difference between the zero-padded sequences
\* of the purely numeric dot-separated components; compare_versions(v, v) is 0
\* and compare_versions("1.2.0", "1.10.0") is -1.
C14_CompareVersions ==
    Compared =>
      /\ (ver.a = "" \/ ver.b = "") => ver.out[1].ab = 0
      /\ (ver.a # "" /\ ver.b # "") =>
           ver.out[1].ab
             = FirstDifferenceSign(NumericSeq(ver.a), NumericSeq(ver.b))
      /\ ver.a = ver.b => ver.out[1].ab = 0
      /\ (ver.a = "1.2.0" /\ ver.b = "1.10.0") => ver.out[1].ab = 0 - 1

C14_Witness ==
    /\ Compared
    /\ ver.a = "1.2.0" /\ ver.b = "1.10.0"
    /\ ver.out[1].ab = 0 - 1 /\ ver.out[1].ba = 1

\* C15: when one of two non-empty strings has no numeric component left, the
\* result is the lexical comparison of the two original strings.
C15_LexicalFallback ==
    (/\ Compared
     /\ ver.a # "" /\ ver.b # ""
     /\ (NumericSeq(ver.a) = << >> \/ NumericSeq(ver.b) = << >>))
      => ver.out[1].ab = string_comparison(ver.a, ver.b)

\* C16: over non-empty dotted-numeric strings compare_versions is a total
\* preorder: compare(a, b) = -compare(b, a), and compare(a, b) <= 0 with
\* compare(b, c) <= 0 gives compare(a, c) <= 0.
C16_TotalPreorder ==
    Compared =>
      /\ ver.out[1].ab = 0 - ver.out[1].ba
      /\ (ver.out[1].ab <= 0 /\ ver.out[1].bc <= 0) => ver.out[1].ac <= 0

C16_Witness ==
    /\ Compared
    /\ ver.a = "0.2" /\ ver.b = "0.10" /\ ver.c = "2"
    /\ ver.out[1].ab = 0 - 1 /\ ver.out[1].bc = 0 - 1 /\ ver.out[1].ac = 0 - 1

(***************************************************************************)
(* match_driver and the reconciler views                                   *)
(*                                                                         *)
(* A driver is a record of name, deviceId, version and os; a key that is   *)
(* absent from the dictionary is the empty string, which is what           *)
(* .get(key, '') and (.get('name') or '') make of it.  The result of       *)
(* match_driver is << >> for None and <<installed>> for a driver.          *)
(***************************************************************************)
Range(seq) == {seq[i] : i \in 1..Len(seq)}

\* manifest entries: one matched by id and by name, one matched by name only,
\* one matched by nothing, one without id and version
EntryIntel ==
    [name |-> "Intel Wireless Bluetooth",
     deviceId |-> "PCI\\VEN_8086&DEV_2723", version |-> "22.190.0",
     os |-> "windows"]

EntryRealtek ==
    [name |-> "Realtek Audio", deviceId |-> "", version |-> "6.0",
     os |-> "Windows"]

EntryChipset ==
    [name |-> "Chipset", deviceId |-> "PCI\\VEN_8086&DEV_A0A0",
     version |-> "1.0", os |-> "linux"]

EntryLan ==
    [name |-> "Intel Wireless LAN", deviceId |-> "", version |-> "",
     os |-> "windows"]

ManifestUniverse == {EntryIntel, EntryRealtek, EntryChipset, EntryLan}

\* installed drivers as the probe reports them
InstalledAdapter ==
    [name |-> "Intel Wireless Adapter", deviceId |-> "",
     version |-> "22.100.0", os |-> ""]

InstalledController ==
    [name |-> "Network Controller",
     deviceId |-> "pci\\ven_8086&dev_2723&subsys_1234",
     version |-> "22.190.0", os |-> ""]

InstalledRealtek ==
    [name |-> "Realtek  audio", deviceId |-> "", version |-> "6.0.1",
     os |-> ""]

\* the controller with an older driver
InstalledOldController ==
    [name |-> "Network Controller",
     deviceId |-> "PCI\\VEN_8086&DEV_2723&SUBSYS_1234&REV_01",
     version |-> "22.100.0", os |-> ""]

InstalledUniverse ==
    {InstalledAdapter, InstalledController, InstalledRealtek,
     InstalledOldController}

OsFilters == {None, "windows", "Linux"}

Drivers == ManifestUniverse \cup InstalledUniverse

\* the values of the functions of strings on the drivers' fields, by field
normalized == [x \in {d.deviceId : d \in Drivers} |-> normalize_device_id(x)]

lowered ==
    [x \in {d.name : d \in Drivers} \cup {d.os : d \in Drivers} \cup OsFilters
       |-> lower(x)]

compared ==
    [p \in {d.version : d \in Drivers} \X {d.version : d \in Drivers} |->
       compare_versions(p[1], p[2])]

\* name.lower().split(): the words between runs of blanks
name_terms(name) == {t \in Range(split(name, " ")) : t # ""}

terms == [x \in {lowered[d.name] : d \in Drivers} |-> name_terms(x)]

\* variant: the raw deviceId strings are compared
id_match_Raw(available_driver, installed) ==
    /\ available_driver.deviceId # "" /\ installed.deviceId # ""
    /\ available_driver.deviceId = installed.deviceId

\* lines 301-302: both normalized ids are non-empty and equal
id_match(available_driver, installed) ==
    LET available_device_id == normalized[available_driver.deviceId]
        installed_device_id == normalized[installed.deviceId]
    IN  /\ available_device_id # "" /\ installed_device_id # ""
        /\ available_device_id = installed_device_id

\* lines 306-313: both names are non-empty and share at least 2 terms
name_match(available_driver, installed) ==
    LET available_name == lowered[available_driver.name]
        installed_name == lowered[installed.name]
    IN  /\ available_name # "" /\ installed_name # ""
        /\ Cardinality(terms[available_name] \cap terms[installed_name]) >= 2

\* variant: the whole list is searched by id before any name is compared
match_driver_IdPassFirst(available_driver, installed_drivers) ==
    LET by_id == SelectSeq(installed_drivers,
                           LAMBDA d : id_match(available_driver, d))
        by_name == SelectSeq(installed_drivers,
                             LAMBDA d : name_match(available_driver, d))
    IN  IF by_id # << >> THEN <<Head(by_id)>>
        ELSE IF by_name # << >> THEN <<Head(by_name)>>
        ELSE << >>

RECURSIVE match_driver(_, _)
match_driver(available_driver, installed_drivers) ==
    IF installed_drivers = << >> THEN << >>
    ELSE LET installed == Head(installed_drivers) IN
         IF id_match(available_driver, installed) THEN <<installed>>
         ELSE IF name_match(available_driver, installed) THEN <<installed>>
         ELSE match_driver(available_driver, Tail(installed_drivers))

\* lines 26-52: << >> is None, <<drivers>> the value that is returned.  A
\* missing file, a file that is not JSON and data that is neither a list nor
\* a dictionary with 'drivers' give None; so does a 'drivers' value without
\* len(), whose TypeError the last except clause catches.
load_drivers_manifest(manifest_file) ==
    IF ~manifest_file.exists THEN << >>
    ELSE IF ~manifest_file.parses THEN << >>
    ELSE LET data == manifest_file.data IN
         IF data.isa = "dict" /\ "drivers" \in data.keys
           THEN IF data.drivers.isa = "int" THEN << >> ELSE <<data.drivers>>
         ELSE IF data.isa = "list" THEN <<JsonValue("list", data.items)>>
         ELSE << >>

\* the manifest is loaded; with a filter only the entries of that os are
\* kept.  The result is the value returned, or raised when d.get fails on the
\* characters of a string.
list_available_drivers(manifest_file, os_filter) ==
    LET drivers == load_drivers_manifest(manifest_file) IN
    IF drivers = << >>
      THEN [raised |-> FALSE, value |-> JsonValue("list", << >>)]
    ELSE IF os_filter # None /\ os_filter # ""
      THEN IF drivers[1].isa = "list"
             THEN [raised |-> FALSE,
                   value |-> JsonValue("list",
                       SelectSeq(drivers[1].items,
                           LAMBDA d : lowered[d.os] = lowered[os_filter]))]
             ELSE [raised |-> TRUE, value |-> JsonValue("list", << >>)]
    ELSE [raised |-> FALSE, value |-> drivers[1]]

\* variant: a driver without a match is put in front of the list
RECURSIVE not_installed_loop_Prepends(_, _, _)
not_installed_loop_Prepends(not_installed, available, installed) ==
    IF available = << >> THEN not_installed
    ELSE not_installed_loop_Prepends(
             IF match_driver(Head(available), installed) = << >>
               THEN <<Head(available)>> \o not_installed
               ELSE not_installed,
             Tail(available), installed)

\* lines 333-336: the loop of list_not_installed_drivers
RECURSIVE not_installed_loop(_, _, _)
not_installed_loop(not_installed, available, installed) ==
    IF available = << >> THEN not_installed
    ELSE not_installed_loop(
             IF match_driver(Head(available), installed) = << >>
               THEN Append(not_installed, Head(available))
               ELSE not_installed,
             Tail(available), installed)

\* lines 396-406: the loop of list_drivers_with_different_versions
RECURSIVE different_versions_loop(_, _, _)
different_versions_loop(different_versions, available, installed) ==
    IF available = << >> THEN different_versions
    ELSE LET driver == Head(available)
             matched == match_driver(driver, installed)
             differs ==
                 /\ matched # << >>
                 /\ driver.version # "" /\ matched[1].version # ""
                 /\ compared[<<matched[1].version, driver.version>>] # 0
         IN  different_versions_loop(
                 IF differs THEN Append(different_versions,
                                        <<driver, matched[1]>>)
                 ELSE different_versions,
                 Tail(available), installed)

\* variant: the note holds the version of the manifest entry
annotated_AvailableVersion(available, installed) ==
    [name |-> available.name, deviceId |-> available.deviceId,
     version |-> available.version, os |-> available.os,
     current_version |-> available.version]

\* driver_copy = available.copy(); driver_copy['current_version'] = ...
\* (a matched driver of different_versions has a non-empty version)
annotated(available, installed) ==
    [name |-> available.name, deviceId |-> available.deviceId,
     version |-> available.version, os |-> available.os,
     current_version |-> installed.version]

\* variant: the result starts empty
copy_Nothing(not_installed) == << >>

\* needing_update = not_installed.copy()
copy(not_installed) == not_installed

\* variant: the entry of every pair is appended
RECURSIVE needing_update_loop_AlwaysAppends(_, _)
needing_update_loop_AlwaysAppends(needing_update, different_versions) ==
    IF different_versions = << >> THEN needing_update
    ELSE needing_update_loop_AlwaysAppends(
             Append(needing_update,
                    annotated(Head(different_versions)[1],
                              Head(different_versions)[2])),
             Tail(different_versions))

\* lines 431-436: the loop of list_drivers_needing_update
RECURSIVE needing_update_loop(_, _)
needing_update_loop(needing_update, different_versions) ==
    IF different_versions = << >> THEN needing_update
    ELSE LET available == Head(different_versions)[1]
             installed == Head(different_versions)[2]
         IN  needing_update_loop(
                 IF available \notin Range(needing_update)
                   THEN Append(needing_update, annotated(available, installed))
                   ELSE needing_update,
                 Tail(different_versions))

\* the sequences of at most n elements of S
Seqs(S, n) == UNION {[1..k -> S] : k \in 0..n}

\* entries grouped under two manufacturers
Grouped(entries) ==
    IF entries = << >> THEN << >>
    ELSE LET half == (Len(entries) + 1) \div 2
         IN  <<[name |-> "Intel", drivers |-> SubSeq(entries, 1, half)],
               [name |-> "Realtek",
                drivers |-> SubSeq(entries, half + 1, Len(entries))]>>

NoValue == JsonValue("int", << >>)

\* {"drivers": [...]}, a bare array and {"manufacturers": [...]}
DriversManifest(entries) ==
    ManifestFile(TRUE, TRUE, "dict", {"drivers"}, JsonValue("list", entries),
                 << >>, << >>)

ArrayManifest(entries) ==
    ManifestFile(TRUE, TRUE, "list", {}, NoValue, << >>, entries)

ManufacturersManifest(entries) ==
    ManifestFile(TRUE, TRUE, "dict", {"manufacturers"}, NoValue,
                 Grouped(entries), << >>)

\* files that are no manifest: not JSON, a number, an empty dictionary, and
\* dictionaries whose 'drivers' is a string or a number
BrokenManifests ==
    { NoManifest,
      ManifestFile(TRUE, FALSE, "int", {}, NoValue, << >>, << >>),
      ManifestFile(TRUE, TRUE, "int", {}, NoValue, << >>, << >>),
      ManifestFile(TRUE, TRUE, "dict", {}, NoValue, << >>, << >>),
      ManifestFile(TRUE, TRUE, "dict", {"drivers"},
                   JsonValue("str", << >>), << >>, << >>),
      ManifestFile(TRUE, TRUE, "dict", {"drivers"},
                   JsonValue("int", << >>), << >>, << >>) }

ManifestFiles ==
    {DriversManifest(m) : m \in Seqs(ManifestUniverse, MaxManifest)}
      \cup {ArrayManifest(m) : m \in Seqs(ManifestUniverse, MaxManifest)}
      \cup {ManufacturersManifest(m) :
              m \in Seqs(ManifestUniverse, MaxManifest)}
      \cup BrokenManifests

InitReconcile ==
    /\ InstallerIdle /\ NormIdle /\ VerIdle /\ DownloadIdle
    /\ \E manifest \in ManifestFiles,
          os_filter \in OsFilters,
          system \in Seqs(InstalledUniverse, MaxInstalled) :
         recon = ReconStart(manifest, os_filter, system, "start")

\* list_not_installed_drivers: the manifest is loaded and filtered, the
\* installed drivers are probed and every available driver is matched.  A
\* string in place of the list of drivers raises AttributeError, in the
\* filter or else in match_driver on its first character.
ListNotInstalledDrivers ==
    /\ recon.pc = "start"
    /\ LET listed == list_available_drivers(recon.manifest, recon.os_filter)
           available == listed.value.items
           installed == recon.system
       IN  IF listed.raised
             THEN recon' = [recon EXCEPT !.pc = "raised",
                                         !.listed = <<listed>>]
           ELSE IF listed.value.isa # "list"
             THEN recon' = [recon EXCEPT !.pc = "raised",
                                         !.listed = <<listed>>,
                                         !.probes = Append(@, installed)]
           ELSE recon' = [recon EXCEPT
                    !.pc = "not_installed",
                    !.listed = <<listed>>,
                    !.probes = Append(@, installed),
                    !.available = available,
                    !.matches = [i \in 1..Len(available) |->
                                   match_driver(available[i], installed)],
                    !.not_installed =
                        not_installed_loop(<< >>, available, installed)]
    /\ UNCHANGED <<installVars, norm, ver, dl>>

\* between the two views a driver is installed or removed on the system
SystemChanges ==
    /\ recon.pc = "not_installed"
    /\ recon.system = recon.probes[1]
    /\ \/ /\ recon.system # << >>
          /\ recon' = [recon EXCEPT !.system = Tail(@)]
       \/ /\ Len(recon.system) < MaxInstalled
          /\ \E d \in InstalledUniverse :
               recon' = [recon EXCEPT !.system = Append(@, d)]
    /\ UNCHANGED <<installVars, norm, ver, dl>>

\* list_drivers_with_different_versions: filters and probes again
ListDriversWithDifferentVersions ==
    /\ recon.pc = "not_installed"
    /\ LET listed == list_available_drivers(recon.manifest, recon.os_filter)
           available == listed.value.items
           installed == recon.system
       IN  recon' = [recon EXCEPT
               !.pc = "different_versions",
               !.probes = Append(@, installed),
               !.different_versions =
                   different_versions_loop(<< >>, available, installed)]
    /\ UNCHANGED <<installVars, norm, ver, dl>>

\* list_drivers_needing_update combines the two views
CombineResults ==
    /\ recon.pc = "different_versions"
    /\ recon' = [recon EXCEPT
           !.pc = "done",
           !.needing_update =
               needing_update_loop(copy(recon.not_installed),
                                   recon.different_versions)]
    /\ UNCHANGED <<installVars, norm, ver, dl>>

NextReconcile ==
    \/ ListNotInstalledDrivers
    \/ SystemChanges
    \/ ListDriversWithDifferentVersions
    \/ CombineResults

SpecReconcile == InitReconcile /\ [][NextReconcile]_vars

(***************************************************************************)
(* Claims about match_driver and the reconciler views                      *)
(***************************************************************************)
\* the words of s: its maximal substrings without a blank
Words(s) ==
    LET bounds == {p \in (1..Len(s)) \X (1..Len(s)) :
                     /\ p[1] <= p[2]
                     /\ \A k \in p[1]..p[2] : CharAt(s, k) # " "
                     /\ (p[1] = 1 \/ CharAt(s, p[1] - 1) = " ")
                     /\ (p[2] = Len(s) \/ CharAt(s, p[2] + 1) = " ")}
    IN  {SubSeq(s, p[1], p[2]) : p \in bounds}

WordsOf == [x \in {d.name : d \in Drivers} |-> Words(lowered[x])]

\* strategy (1): the normalized ids are both non-empty and equal
IdStrategy(e, d) ==
    /\ normalized[e.deviceId] # "" /\ normalized[d.deviceId] # ""
    /\ normalized[e.deviceId] = normalized[d.deviceId]

\* strategy (2): the names share at least 2 distinct words
NameStrategy(e, d) == Cardinality(WordsOf[e.name] \cap WordsOf[d.name]) >= 2

Satisfies(e, d) == IdStrategy(e, d) \/ NameStrategy(e, d)

\* the positions of the installed list S whose driver satisfies a strategy
Satisfying(e, S) == {k \in 1..Len(S) : Satisfies(e, S[k])}

Least(I) == CHOOSE i \in I : \A j \in I : i <= j

Matched == recon.pc \in {"not_installed", "different_versions", "done"}

\* C17: match_driver returns the earliest driver of the installed list that
\* satisfies the id strategy or the name strategy, so an earlier driver that
\* matches by name only is returned rather than a later one that matches by id.
C17_EarliestCandidateWins ==
    Matched =>
      \A i \in 1..Len(recon.available) :
         LET e == recon.available[i]
             S == recon.probes[1]
         IN  /\ Satisfying(e, S) # {} =>
                  recon.matches[i] = <<S[Least(Satisfying(e, S))]>>
             /\ \A k \in 1..Len(S), j \in 1..Len(S) :
                  (/\ k < j
                   /\ NameStrategy(e, S[k]) /\ ~IdStrategy(e, S[k])
                   /\ IdStrategy(e, S[j])
                   /\ \A h \in 1..(k - 1) : ~Satisfies(e, S[h]))
                    => recon.matches[i] = <<S[k]>>

C17_Witness ==
    /\ Matched
    /\ recon.available = <<EntryIntel>>
    /\ recon.probes[1] = <<InstalledAdapter, InstalledController>>
    /\ ~IdStrategy(EntryIntel, InstalledAdapter)
    /\ IdStrategy(EntryIntel, InstalledController)
    /\ recon.matches = <<(<<InstalledAdapter>>)>>

\* C18 as stated: match_driver returns None when no installed driver
\* satisfies a strategy, and it returns d whenever an installed driver d has
\* the same normalized id as the entry.
C18_Original ==
    Matched =>
      \A i \in 1..Len(recon.available) :
         LET e == recon.available[i]
             S == recon.probes[1]
         IN  /\ Satisfying(e, S) = {} => recon.matches[i] = << >>
             /\ \A k \in 1..Len(S) :
                  normalized[e.deviceId] = normalized[S[k].deviceId]
                    => recon.matches[i] = <<S[k]>>

\* C18: match_driver returns None when no installed driver satisfies a
\* strategy, and it returns d whenever d has the same non-empty normalized id
\* as the entry and no earlier driver of the list matches, even if the names
\* share no word.
C18_IdMatchReturned ==
    Matched =>
      \A i \in 1..Len(recon.available) :
         LET e == recon.available[i]
             S == recon.probes[1]
         IN  /\ Satisfying(e, S) = {} => recon.matches[i] = << >>
             /\ \A k \in 1..Len(S) :
                  (/\ normalized[e.deviceId] # ""
                   /\ normalized[e.deviceId] = normalized[S[k].deviceId]
                   /\ \A h \in 1..(k - 1) : ~Satisfies(e, S[h]))
                    => recon.matches[i] = <<S[k]>>

C18_Witness ==
    /\ Matched
    /\ recon.available = <<EntryChipset, EntryIntel>>
    /\ recon.probes[1] = <<InstalledRealtek, InstalledController>>
    /\ WordsOf[EntryIntel.name] \cap WordsOf[InstalledController.name] = {}
    /\ recon.matches = << << >>, <<InstalledController>> >>

\* the elements of seq at the positions that satisfy Keep, in their order
Kept(seq, Keep(_)) ==
    LET positions == SelectSeq([i \in 1..Len(seq) |-> i], Keep)
    IN  [k \in 1..Len(positions) |-> seq[positions[k]]]

\* the pair of an entry that matches in S with a version that differs
MismatchIn(e, S) ==
    LET matched == S[Least(Satisfying(e, S))]
    IN  /\ e.version # "" /\ matched.version # ""
        /\ compared[<<matched.version, e.version>>] # 0

\* C19: list_not_installed_drivers returns, in manifest order, exactly the
\* available entries that match no installed driver;
\* list_drivers_with_different_versions returns, in manifest order, exactly
\* the pairs (entry, matched) of the entries that match, have a non-empty
\* version on both sides and compare unequal.
C19_ViewsCharacterised ==
    /\ Matched =>
         LET S == recon.probes[1]
             Unmatched(i) == match_driver(recon.available[i], S) = << >>
         IN  /\ recon.not_installed = Kept(recon.available, Unmatched)
             /\ \A i \in 1..Len(recon.available) :
                  Unmatched(i) <=> Satisfying(recon.available[i], S) = {}
    /\ recon.pc \in {"different_versions", "done"} =>
         LET S == recon.probes[2]
             Differs(i) ==
                 /\ Satisfying(recon.available[i], S) # {}
                 /\ MismatchIn(recon.available[i], S)
             pairs == [i \in 1..Len(recon.available) |->
                         <<recon.available[i],
                           IF Satisfying(recon.available[i], S) = {}
                             THEN recon.available[i]
                             ELSE S[Least(Satisfying(recon.available[i], S))]>>]
             positions == SelectSeq([i \in 1..Len(pairs) |-> i], Differs)
         IN  recon.different_versions
               = [k \in 1..Len(positions) |-> pairs[positions[k]]]

C19_Witness ==
    /\ recon.pc = "different_versions"
    /\ recon.available = <<EntryChipset, EntryIntel>>
    /\ recon.probes = <<(<<InstalledAdapter>>), <<InstalledAdapter>> >>
    /\ recon.not_installed = <<EntryChipset>>
    /\ recon.different_versions = << <<EntryIntel, InstalledAdapter>> >>

\* the manifest entry behind an element of needing_update
EntryOf(x) ==
    [name |-> x.name, deviceId |-> x.deviceId, version |-> x.version,
     os |-> x.os]

HasCurrentVersion(x) == "current_version" \in DOMAIN x

\* C20: every not-installed entry and every entry of a version-mismatch pair
\* is in the result of list_drivers_needing_update (the latter possibly with
\* its current_version note), and every element of the result without
\* current_version is a not-installed entry.
C20_ViewsContained ==
    recon.pc = "done" =>
      /\ \A e \in Range(recon.not_installed) :
           e \in Range(recon.needing_update)
      /\ \A p \in Range(recon.different_versions) :
           \E x \in Range(recon.needing_update) : EntryOf(x) = p[1]
      /\ \A x \in Range(recon.needing_update) :
           ~HasCurrentVersion(x) => x \in Range(recon.not_installed)

C20_Witness ==
    /\ recon.pc = "done"
    /\ recon.probes = <<(<<InstalledAdapter>>), <<InstalledAdapter>> >>
    /\ recon.not_installed = <<EntryChipset>>
    /\ recon.different_versions = << <<EntryIntel, InstalledAdapter>> >>
    /\ Len(recon.needing_update) = 2
    /\ recon.needing_update[1] = EntryChipset
    /\ EntryOf(recon.needing_update[2]) = EntryIntel
    /\ recon.needing_update[2].current_version = "22.100.0"

\* C21: in the result of list_drivers_needing_update the entries of the
\* not-installed view come first and carry no current_version; every entry
\* after them stems from a version-mismatch pair and carries the non-empty
\* version of the installed driver it matched.  The entry with version
\* 22.190.0 matched by id to an installed 22.100.0 has current_version
\* 22.100.0.
C21_CurrentVersionNote ==
    recon.pc = "done" =>
      LET n == Len(recon.not_installed)
          returned == recon.needing_update
      IN  /\ Len(returned) >= n
          /\ \A i \in 1..n :
               /\ returned[i] = recon.not_installed[i]
               /\ ~HasCurrentVersion(returned[i])
          /\ \A i \in (n + 1)..Len(returned) :
               /\ HasCurrentVersion(returned[i])
               /\ \E p \in Range(recon.different_versions) :
                    /\ EntryOf(returned[i]) = p[1]
                    /\ <<p[2]>> = match_driver(p[1], recon.probes[2])
                    /\ p[2].version # ""
                    /\ returned[i].current_version = p[2].version
          /\ (/\ <<EntryIntel, InstalledOldController>>
                   \in Range(recon.different_versions)
              /\ EntryIntel \notin Range(recon.not_installed))
               => \E x \in Range(returned) :
                     /\ EntryOf(x) = EntryIntel
                     /\ HasCurrentVersion(x) /\ x.current_version = "22.100.0"

C21_Witness ==
    /\ recon.pc = "done"
    /\ recon.available = <<EntryRealtek, EntryIntel>>
    /\ recon.probes = <<(<<InstalledOldController>>),
                        <<InstalledOldController>> >>
    /\ IdStrategy(EntryIntel, InstalledOldController)
    /\ ~NameStrategy(EntryIntel, InstalledOldController)
    /\ Len(recon.needing_update) = 2
    /\ recon.needing_update[1] = EntryRealtek
    /\ recon.needing_update[2].version = "22.190.0"
    /\ recon.needing_update[2].current_version = "22.100.0"

\* C22: no manifest entry is in the result of list_drivers_needing_update
\* both without and with current_version: an entry that came from the
\* not-installed view is not added again from the version-mismatch view.
C22_NotAddedTwice ==
    recon.pc = "done" =>
      \A x \in Range(recon.needing_update), y \in Range(recon.needing_update) :
         ~(/\ ~HasCurrentVersion(x) /\ HasCurrentVersion(y)
           /\ EntryOf(y) = x)

\* the entry was not installed at the first probe and had an older driver at
\* the second: it is in both views and once in the result
C22_Witness ==
    /\ recon.pc = "done"
    /\ recon.probes = << << >>, <<InstalledOldController>> >>
    /\ recon.not_installed = <<EntryIntel>>
    /\ recon.different_versions = << <<EntryIntel, InstalledOldController>> >>
    /\ recon.needing_update = <<EntryIntel>>

(***************************************************************************)
(* Claims about the manifest file                                          *)
(***************************************************************************)
\* the envelopes of a manifest file
DriversEnvelope(f) ==
    /\ f.exists /\ f.parses /\ f.data.isa = "dict"
    /\ "drivers" \in f.data.keys /\ f.data.drivers.isa = "list"

ArrayEnvelope(f) == f.exists /\ f.parses /\ f.data.isa = "list"

ManufacturersEnvelope(f) ==
    /\ f.exists /\ f.parses /\ f.data.isa = "dict"
    /\ "drivers" \notin f.data.keys /\ "manufacturers" \in f.data.keys

\* missing file, invalid JSON or invalid shape
CannotBeLoaded(f) ==
    ~(DriversEnvelope(f) \/ ArrayEnvelope(f) \/ ManufacturersEnvelope(f))

\* the concatenation of the drivers of the manufacturers
RECURSIVE Flattened(_)
Flattened(manufacturers) ==
    IF manufacturers = << >> THEN << >>
    ELSE Head(manufacturers).drivers \o Flattened(Tail(manufacturers))

\* the entries of a manifest that can be loaded
ManifestEntries(f) ==
    IF DriversEnvelope(f) THEN f.data.drivers.items
    ELSE IF ArrayEnvelope(f) THEN f.data.items
    ELSE Flattened(f.data.manufacturers)

\* the entries whose os equals the filter ignoring case; all without filter
OsFiltered(entries, os_filter) ==
    IF os_filter \in {None, ""} THEN entries
    ELSE LET Same(i) == lowered[entries[i].os] = lowered[os_filter]
         IN  Kept(entries, Same)

Listed == recon.listed # << >>

\* C23: list_available_drivers returns, in manifest order, the entries whose
\* os equals the filter ignoring case, or all entries without a filter (here
\* for the drivers and array envelopes); when the manifest cannot be loaded
\* it returns the empty list without raising, and the three views are empty.
C23_AvailableDrivers ==
    Listed =>
      /\ (DriversEnvelope(recon.manifest) \/ ArrayEnvelope(recon.manifest)) =>
           /\ ~recon.listed[1].raised
           /\ recon.listed[1].value
                = JsonValue("list", OsFiltered(ManifestEntries(recon.manifest),
                                               recon.os_filter))
      /\ CannotBeLoaded(recon.manifest) =>
           /\ recon.listed[1] =
                [raised |-> FALSE, value |-> JsonValue("list", << >>)]
           /\ recon.pc # "raised"
           /\ recon.not_installed = << >>
           /\ recon.different_versions = << >>
           /\ recon.needing_update = << >>

\* C24: with the grouped envelope the views operate on the concatenation of
\* the drivers of all manufacturers, as they do on {"drivers": [...]} with
\* the same entries.
C24_GroupedManifestFlattened ==
    (Listed /\ ManufacturersEnvelope(recon.manifest)) =>
      LET entries == OsFiltered(Flattened(recon.manifest.data.manufacturers),
                                recon.os_filter)
      IN  /\ recon.pc # "raised"
          /\ recon.available = entries
          /\ recon.not_installed
               = not_installed_loop(<< >>, entries, recon.probes[1])

(***************************************************************************)
(* download_file                                                           *)
(***************************************************************************)
RECURSIVE Pow2(_)
Pow2(n) == IF n = 0 THEN 1 ELSE 2 * Pow2(n - 1)

\* variant: the wait is also made after the last attempt
backoff_AfterLast(attempt, max_retries) == <<Pow2(attempt - 1)>>

\* lines 73-76 and 79-82: time.sleep(2 ** (attempt - 1)) unless the attempt
\* was the last; << >> is no wait
backoff(attempt, max_retries) ==
    IF attempt < max_retries THEN <<Pow2(attempt - 1)>> ELSE << >>

\* line 30: output_file.exists() and not force
cached(file, force) == file # "absent" /\ ~force

\* what open(output_path, 'wb') followed by a failed write leaves
written(writing, file) == IF writing THEN "partial" ELSE file

\* lines 29-38: the cache check; a cached file returns True, and so does an
\* empty range of attempts return False
DownloadFile(force, max_retries) ==
    /\ dl.pc \in {"idle", "returned"}
    /\ dl.calls < MaxCalls
    /\ dl' = [dl EXCEPT
           !.calls = @ + 1, !.force = force, !.max_retries = max_retries,
           !.existed = dl.file # "absent",
           !.attempts = << >>, !.waits = << >>,
           !.attempt = IF cached(dl.file, force) \/ max_retries = 0
                         THEN 0 ELSE 1,
           !.pc = IF cached(dl.file, force) \/ max_retries = 0
                    THEN "returned" ELSE "request",
           !.returned = IF cached(dl.file, force) THEN <<TRUE>>
                        ELSE IF max_retries = 0 THEN <<FALSE>>
                        ELSE << >>]
    /\ UNCHANGED <<installVars, detectVars>>

\* the attempt failed and was caught by a retrying except clause
Retry(kind, writing) ==
    dl' = [dl EXCEPT
        !.file = written(writing, @),
        !.attempts = Append(@, kind),
        !.waits = @ \o backoff(dl.attempt, dl.max_retries),
        !.attempt = IF dl.attempt < dl.max_retries THEN @ + 1 ELSE @,
        !.pc = IF dl.attempt < dl.max_retries THEN "request" ELSE "returned",
        !.returned = IF dl.attempt < dl.max_retries THEN << >> ELSE <<FALSE>>]

\* lines 43-69: the request is answered and the whole body is written
AttemptSucceeds ==
    /\ dl.pc = "request"
    /\ dl' = [dl EXCEPT !.file = "complete", !.attempts = Append(@, "ok"),
                        !.pc = "returned", !.returned = <<TRUE>>]
    /\ UNCHANGED <<installVars, detectVars>>

\* lines 71-76: requests.get times out
AttemptTimesOut ==
    /\ dl.pc = "request"
    /\ Retry("timeout", FALSE)
    /\ UNCHANGED <<installVars, detectVars>>

\* lines 77-82: a RequestException, raised by the request or its status
\* (nothing written) or by reading the body after the file was opened
AttemptRequestError(writing) ==
    /\ dl.pc = "request"
    /\ Retry("request_error", writing)
    /\ UNCHANGED <<installVars, detectVars>>

\* lines 83-85: any other exception, before or after the file was opened
AttemptUnexpectedError(writing) ==
    /\ dl.pc = "request"
    /\ dl' = [dl EXCEPT !.file = written(writing, @),
                        !.attempts = Append(@, "unexpected"),
                        !.pc = "returned", !.returned = <<FALSE>>]
    /\ UNCHANGED <<installVars, detectVars>>

InitDownload ==
    /\ InstallerIdle /\ NormIdle /\ VerIdle /\ ReconIdle
    /\ \E file \in {"absent", "original"} : dl = DownloadStart(file)

NextDownload ==
    \/ \E force \in BOOLEAN, max_retries \in 0..MaxRetries :
          DownloadFile(force, max_retries)
    \/ AttemptSucceeds
    \/ AttemptTimesOut
    \/ \E writing \in BOOLEAN : AttemptRequestError(writing)
    \/ \E writing \in BOOLEAN : AttemptUnexpectedError(writing)

SpecDownload == InitDownload /\ [][NextDownload]_vars

(***************************************************************************)
(* Claims about download_file                                              *)
(***************************************************************************)
Retryable == {"timeout", "request_error"}

Called == dl.calls >= 1

\* C25: download_file makes no request and returns True when the file exists
\* and force is false.  Otherwise it makes at most max_retries requests, a
\* further request only after a timeout or a request error, with a wait
\* between two attempts and none after the last; it returns True at the
\* first attempt that succeeds, and False once max_retries attempts have
\* failed or an unexpected error occurred.
C25_BoundedRetry ==
    Called =>
      LET n == Len(dl.attempts)
          done == dl.pc = "returned"
      IN  /\ (dl.existed /\ ~dl.force) => (n = 0 /\ dl.returned = <<TRUE>>)
          /\ n <= dl.max_retries
          /\ \A i \in 1..(n - 1) : dl.attempts[i] \in Retryable
          /\ Len(dl.waits) = (IF done /\ n > 0 THEN n - 1 ELSE n)
          /\ dl.returned = <<TRUE>> <=>
               \/ dl.existed /\ ~dl.force
               \/ n > 0 /\ dl.attempts[n] = "ok"
          /\ dl.returned = <<FALSE>> <=>
               /\ ~(dl.existed /\ ~dl.force)
               /\ \/ n = dl.max_retries /\ \A i \in 1..n : dl.attempts[i] # "ok"
                  \/ n > 0 /\ dl.attempts[n] = "unexpected"
          /\ done <=> dl.returned # << >>

C25_Witness ==
    /\ dl.pc = "returned"
    /\ dl.existed /\ dl.force /\ dl.max_retries = 2
    /\ dl.attempts = <<"timeout", "request_error">>
    /\ dl.waits = <<1>>
    /\ dl.returned = <<FALSE>>

\* C29: a call with force false returns True only with a destination file
\* that was there before the first call or was written completely by an
\* attempt that succeeded, never with a file left by an attempt that failed
\* while writing.
C29_NoPartialFileAccepted ==
    (dl.pc = "returned" /\ ~dl.force /\ dl.returned = <<TRUE>>)
      => dl.file \in {"original", "complete"}

(***************************************************************************)
(* Further properties of the installers                                    *)
(***************************************************************************)
\* C26: in every outcome of an installer, success implies an exit code of 0,
\* 3010 or 1641 for the Windows installers and of 0 for the Linux installers,
\* and an exit code of -1 implies failure.
C26_OutcomeConsistent ==
    Len(outcome) = 1 =>
      /\ ((RunsExe \/ RunsMsi \/ RunsZip) /\ outcome[1].success)
           => outcome[1].exitCode \in AcceptedCodes
      /\ ((RunsDeb \/ RunsRpm) /\ outcome[1].success)
           => outcome[1].exitCode = 0
      /\ outcome[1].exitCode = 0 - 1 => ~outcome[1].success

C26_Witness ==
    /\ Returned /\ RunsRpm
    /\ Len(launches) = 3
    /\ ExitedWith(launches[1], 1) /\ ExitedWith(launches[2], 1)
    /\ ExitedWith(launches[3], 0)
    /\ outcome = <<[success |-> TRUE, exitCode |-> 0]>>

\* a launch whose command line holds no silent flag
FlagFree(l) == l.args = None \/ l.args = ""

\* C27: whatever the entry's silentArgs (absent, empty, non-empty), a launch
\* of install_exe without a silent flag is never the first launch and comes
\* only after every flagged candidate was attempted and failed.
C27_FlagFreeNeverFirst ==
    RunsExe =>
      \A i \in 1..Len(launches) :
         FlagFree(launches[i]) =>
           /\ i > 1
           /\ \A k \in 1..Len(FallbackFlags) :
                \E j \in 1..(i - 1) :
                   /\ launches[j].args = FallbackFlags[k]
                   /\ \/ launches[j].status = "raised"
                      \/ /\ launches[j].status = "exited"
                         /\ launches[j].code \notin AcceptedCodes

\* C30: in install_deb and install_rpm a launch that raises is the last
\* launch and the outcome is (False, -1); in install_exe a flagged launch that
\* raises is followed by the launch of the next candidate before the call
\* returns.
C30_ExceptionEndsLinuxCascade ==
    /\ (RunsDeb \/ RunsRpm) =>
         \A i \in 1..Len(launches) :
            launches[i].status = "raised"
              => /\ i = Len(launches)
                 /\ outcome = <<Failure>>
                 /\ pc = "done"
    /\ RunsExe =>
         \A i \in 1..Len(launches) :
            (launches[i].status = "raised" /\ launches[i].args # None)
              => /\ Len(outcome) = 1 => Len(launches) > i
                 /\ Len(launches) > i =>
                      launches[i + 1].args
                        = (IF i < Len(Candidates(silentArgs))
                             THEN Candidates(silentArgs)[i + 1] ELSE None)

C30_Witness ==
    /\ Returned /\ RunsRpm
    /\ Len(launches) = 2
    /\ launches[1].tool = "rpm" /\ ExitedWith(launches[1], 1)
    /\ launches[2].tool = "dnf" /\ launches[2].status = "raised"
    /\ outcome = <<Failure>>
    /\ result = <<FALSE>>

\* needingUpdate(M, S): the not-installed entries of the available entries
\* against the installed drivers S, followed by the annotated entries of the
\* version-mismatch pairs against S
NeedingUpdateIn(available, S) ==
    needing_update_loop(not_installed_loop(<< >>, available, S),
                        different_versions_loop(<< >>, available, S))

\* an entry that is matched in S without a version mismatch
UpToDateIn(e, S) == Satisfying(e, S) # {} /\ ~MismatchIn(e, S)

\* C28: the result of one list_drivers_needing_update call is that of a
\* single snapshot S of the installed drivers, one the system had while the
\* call ran, so every available entry is in the result or up to date in S.
C28_SingleSnapshot ==
    recon.pc = "done" =>
      \E S \in Range(recon.probes) :
         /\ recon.needing_update = NeedingUpdateIn(recon.available, S)
         /\ \A e \in Range(recon.available) :
              \/ \E x \in Range(recon.needing_update) : EntryOf(x) = e
              \/ UpToDateIn(e, S)

====
